---- MODULE Spec2Model ----
(***************************************************************************)
(* openedx/features/calendar_sync/ics.py: generation of iCalendar          *)
(* documents for the assignments and the start date of a course.           *)
(*                                                                         *)
(* Representation.                                                         *)
(*  - A Python str is a sequence of one-character strings, so that         *)
(*    formatting, escaping and concatenation are computed character by     *)
(*    character ("42.b.due@e.org" is <<"4","2",".","b",".","d",...>>).     *)
(*  - A timezone-aware UTC datetime is [isdt |-> TRUE, secs |-> n], n the  *)
(*    seconds since 2024-03-01T00:00:00Z (n < 86400); the value None is    *)
(*    [isdt |-> FALSE, secs |-> 0].                                        *)
(*  - An opaque key (course id, block key) is represented by its string    *)
(*    form, which is what str(key) returns.                                *)
(*  - An ics document is the sequence of content lines that                *)
(*    Calendar.to_ical() emits, each line a record                         *)
(*    [name, params, value] with the value already encoded; the folding    *)
(*    of long lines and the CRLF joining of the lines are not modelled.    *)
(*  - gettext is the identity on the message id (source language).         *)
(***************************************************************************)
EXTENDS Integers, Sequences, FiniteSets, TLC

\* ------------------------------------------------------------------ bounds

\* The clock runs from 0 to MaxClock seconds.
MaxClock == 2

\* The assignment provider returns lists of at most MaxAssignments items.
MaxAssignments == 3

\* The keys passed to get_calendar_event_id directly are all the strings of
\* at most MaxKeyLen characters, and a few longer ones.
MaxKeyLen == 2

\* ----------------------------------------------------------------- strings

RECURSIVE Concat(_)
\* ''.join(parts)
Concat(parts) ==
    IF parts = <<>> THEN <<>> ELSE Head(parts) \o Concat(Tail(parts))

Digit(d) ==
    CASE d = 0 -> "0" [] d = 1 -> "1" [] d = 2 -> "2" [] d = 3 -> "3"
      [] d = 4 -> "4" [] d = 5 -> "5" [] d = 6 -> "6" [] d = 7 -> "7"
      [] d = 8 -> "8" [] d = 9 -> "9"

RECURSIVE FormatInt(_)
\* '{}'.format(n) for an int n: its decimal digits, '-' first when negative.
FormatInt(n) ==
    IF n < 0 THEN <<"-">> \o FormatInt(0 - n)
    ELSE IF n < 10 THEN <<Digit(n)>>
    ELSE FormatInt(n \div 10) \o <<Digit(n % 10)>>

\* Two decimal digits, zero padded (strftime's %H, %M, %S).
Pad2(n) == <<Digit((n \div 10) % 10), Digit(n % 10)>>

\* ------------------------------------------------- get_calendar_event_id

\* A wrong format string that leaves the date type out.
get_calendar_event_id_no_type(user_id, block_key, date_type, hostname) ==
    FormatInt(user_id) \o <<".">> \o block_key \o <<"@">> \o hostname

\* A wrong format string that keeps only the block key and the hostname.
get_calendar_event_id_key_only(user_id, block_key, date_type, hostname) ==
    block_key \o <<"@">> \o hostname

\* '{}.{}.{}@{}'.format(user_id, block_key, date_type, hostname)
get_calendar_event_id(user_id, block_key, date_type, hostname) ==
    FormatInt(user_id) \o <<".">> \o block_key \o <<".">> \o date_type
        \o <<"@">> \o hostname

\* -------------------------------------------------- icalendar value types

None == [isdt |-> FALSE, secs |-> 0]

Datetime(n) == [isdt |-> TRUE, secs |-> n]

\* vDatetime.to_ical() of a UTC datetime: "%Y%m%dT%H%M%S" followed by "Z".
FormatTime(dt) ==
    <<"2","0","2","4","0","3","0","1","T">>
        \o Pad2(dt.secs \div 3600) \o Pad2((dt.secs \div 60) % 60)
        \o Pad2(dt.secs % 60) \o <<"Z">>

\* vDuration.to_ical() of timedelta(0)
PT0S == <<"P","T","0","S">>

\* escape_char of one character of a TEXT value.
EscapeChar(c) ==
    CASE c = "\\" -> <<"\\", "\\">>
      [] c = ";"  -> <<"\\", ";">>
      [] c = ","  -> <<"\\", ",">>
      [] c = "\n" -> <<"\\", "n">>
      [] OTHER    -> <<c>>

\* vText.to_ical(): the TEXT value with its special characters escaped.
vText(text) == Concat([i \in 1..Len(text) |-> EscapeChar(text[i])])

\* markupsafe's escape of one character.
HtmlEscapeChar(c) ==
    CASE c = "&" -> <<"&","a","m","p",";">>
      [] c = "<" -> <<"&","l","t",";">>
      [] c = ">" -> <<"&","g","t",";">>
      [] c = "'" -> <<"&","#","3","9",";">>
      [] c = "\"" -> <<"&","#","3","4",";">>
      [] OTHER   -> <<c>>

\* The escaping HTML(...).format applies to each substituted argument.
HtmlEscape(text) == Concat([i \in 1..Len(text) |-> HtmlEscapeChar(text[i])])

\* ------------------------------------------------ icalendar components

Prop(name, params, value) == [name |-> name, params |-> params, value |-> value]

\* Component.add(name, value): the property is appended to the component.
Add(component, name, params, value) ==
    [component EXCEPT !.props = Append(@, Prop(name, params, value))]

\* Component.add_component(sub)
AddComponent(component, sub) ==
    [component EXCEPT !.subcomponents = Append(@, sub)]

\* Event() and Calendar(): empty components.
Component(name) == [name |-> name, props |-> <<>>, subcomponents |-> <<>>]

VEVENT == <<"V","E","V","E","N","T">>

VCALENDAR == <<"V","C","A","L","E","N","D","A","R">>

\* The order in which to_ical() emits the properties used here: the
\* canonical order of the component (Calendar: VERSION, PRODID, METHOD;
\* Event: SUMMARY, DTSTART, DURATION, DTSTAMP, UID), then the remaining
\* names alphabetically.
PropertyOrder ==
    <<"VERSION", "PRODID", "METHOD",
      "SUMMARY", "DTSTART", "DURATION", "DTSTAMP", "UID",
      "DESCRIPTION", "ORGANIZER", "TRANSP">>

\* Component.sorted_items()
SortedProps(props) ==
    Concat([i \in 1..Len(PropertyOrder) |->
              SelectSeq(props, LAMBDA p : p.name = PropertyOrder[i])])

RECURSIVE ContentLines(_, _)
\* The content lines of the subcomponents sub[1..n], in order.
ContentLines(sub, n) ==
    IF n = 0 THEN <<>>
    ELSE ContentLines(sub, n - 1)
           \o <<Prop("BEGIN", <<>>, sub[n].name)>>
           \o SortedProps(sub[n].props)
           \o <<Prop("END", <<>>, sub[n].name)>>

\* Calendar.to_ical(): BEGIN, the sorted properties, the subcomponents
\* (events, which have none of their own), END.
to_ical(cal) ==
    <<Prop("BEGIN", <<>>, cal.name)>>
        \o SortedProps(cal.props)
        \o ContentLines(cal.subcomponents, Len(cal.subcomponents))
        \o <<Prop("END", <<>>, cal.name)>>

\* ------------------------------------------------ generate_ics_for_event

PRODID ==
    <<"-","/","/","O","p","e","n"," ","e","d","X","/","/",
      "c","a","l","e","n","d","a","r","_","s","y","n","c","/","/","E","N">>

VERSION == <<"2",".","0">>

REQUEST == <<"R","E","Q","U","E","S","T">>

TRANSPARENT == <<"T","R","A","N","S","P","A","R","E","N","T">>

MAILTO == <<"m","a","i","l","t","o",":">>

\* The event of generate_ics_for_event, property by property.
EventOf(uid, title, description, now, start, organizer_name, organizer_email) ==
    LET organizer == MAILTO \o organizer_email
        cn        == <<[key |-> "CN", value |-> organizer_name]>>
        e0 == Component(VEVENT)
        e1 == Add(e0, "UID", <<>>, vText(uid))
        e2 == Add(e1, "DTSTAMP", <<>>, FormatTime(now))
        e3 == Add(e2, "ORGANIZER", cn, organizer)
        e4 == Add(e3, "SUMMARY", <<>>, vText(title))
        e5 == Add(e4, "DESCRIPTION", <<>>, vText(description))
        e6 == Add(e5, "DTSTART", <<>>, FormatTime(start))
        e7 == Add(e6, "DURATION", <<>>, PT0S)
    IN  Add(e7, "TRANSP", <<>>, TRANSPARENT)

\* The calendar of generate_ics_for_event around the given event.
CalendarOf(event) ==
    LET c0 == Component(VCALENDAR)
        c1 == Add(c0, "PRODID", <<>>, PRODID)
        c2 == Add(c1, "VERSION", <<>>, VERSION)
        c3 == Add(c2, "METHOD", <<>>, REQUEST)
    IN  AddComponent(c3, event)

\* The event is added to the calendar twice.
generate_ics_for_event_twice(uid, title, description, now, start, organizer_name, organizer_email) ==
    LET event == EventOf(uid, title, description, now, start,
                         organizer_name, organizer_email)
    IN  IF ~now.isdt \/ ~start.isdt
        THEN [raised |-> TRUE, ics |-> <<>>]
        ELSE [raised |-> FALSE,
              ics |-> to_ical(AddComponent(CalendarOf(event), event))]

\* DTSTART is taken from the creation timestamp instead of the start.
generate_ics_for_event_start_now(uid, title, description, now, start, organizer_name, organizer_email) ==
    IF ~now.isdt \/ ~start.isdt
    THEN [raised |-> TRUE, ics |-> <<>>]
    ELSE [raised |-> FALSE,
          ics |-> to_ical(CalendarOf(EventOf(uid, title, description, now,
                              now, organizer_name, organizer_email)))]

\* generate_ics_for_event: the bytes of the calendar, or the exception that
\* event.add raises for a dtstamp or dtstart that is no date or time.
generate_ics_for_event(uid, title, description, now, start, organizer_name, organizer_email) ==
    IF ~now.isdt \/ ~start.isdt
    THEN [raised |-> TRUE, ics |-> <<>>]
    ELSE [raised |-> FALSE,
          ics |-> to_ical(CalendarOf(EventOf(uid, title, description, now,
                              start, organizer_name, organizer_email)))]

\* ------------------------------------------------------------ the state

VARIABLES
    clock,               \* datetime.now(pytz.utc), in seconds
    course,              \* the course argument: id, display name, start date
    user,                \* the user argument: id
    request,             \* the request argument: site.domain
    site_configuration,  \* the values the current site overrides
    course_assignments,  \* what get_course_assignments would return now
    genState,            \* "none" (not called), "suspended", "closed"
    abandoned,           \* the consumer closed the generator itself
    assignments,         \* local of generate_ics_for_course_assignments
    platform_name,       \* local of generate_ics_for_course_assignments
    platform_email,      \* local of generate_ics_for_course_assignments
    now,                 \* local of generate_ics_for_course_assignments
    pos,                 \* items the generator has taken from assignments
    delivered,           \* the documents the consumer received, in order
    deliveredAt,         \* the clock's value when each was received
    errorAt,             \* the step at which next() raised an error, or 0
    lastResult,          \* of the last next(): "none", "item", "error", "stop"
    returned,            \* the list the provider returned to the call
    providerReads,       \* calls of get_course_assignments
    serialized,          \* documents generate_ics_for_event has returned
    startResult,         \* what generate_ics_for_course_start returned
    probe                \* arguments and results of a direct function call

vars ==
    <<clock, course, user, request, site_configuration, course_assignments,
      genState, abandoned, assignments, platform_name, platform_email, now,
      pos, delivered, deliveredAt, errorAt, lastResult, returned, providerReads, serialized,
      startResult, probe>>

world == <<course, user, request, site_configuration>>

generator == <<genState, abandoned, assignments, platform_name, platform_email, now, pos>>

consumer == <<delivered, deliveredAt, errorAt, lastResult>>

\* ------------------------------------------------------------- the inputs

DUE == <<"d","u","e">>

START == <<"s","t","a","r","t">>

\* settings.PLATFORM_NAME
PLATFORM_NAME == <<"e","d","X">>

\* settings.DEFAULT_FROM_EMAIL
DEFAULT_FROM_EMAIL == <<"n","@","e",".","o">>

Users == {[id |-> 7], [id |-> 42]}

Requests ==
    {[site |-> [domain |-> <<"e",".","o">>]], [site |-> [domain |-> <<"x">>]]}

Courses ==
    {[id |-> <<"c","1">>,
      display_name_with_default |-> <<"C","S"," ","1">>,
      start_date |-> Datetime(10)],
     [id |-> <<"b","2",".","d","u","e">>,
      display_name_with_default |-> <<"A","&","B">>,
      start_date |-> Datetime(3661)]}

\* A site without overrides, and one that overrides both values.
SiteConfigurations ==
    {[overrides |-> {}, platform_name |-> <<>>, email_from_address |-> <<>>],
     [overrides |-> {"platform_name", "email_from_address"},
      platform_name |-> <<"U",";","x">>,
      email_from_address |-> <<"u","@","x">>]}

\* The calls that are made: the arguments (course, user, request) and the
\* configuration of the request's site.  Each course is requested by another
\* user on another site, one site without overrides and one with.
Calls ==
    {a \in [course : Courses, user : Users, request : Requests, site_configuration : SiteConfigurations] :
        \/ /\ a.course.id = <<"c","1">>
           /\ a.user.id = 42
           /\ a.request.site.domain = <<"e",".","o">>
           /\ a.site_configuration.overrides = {}
        \/ /\ a.course.id # <<"c","1">>
           /\ a.user.id = 7
           /\ a.request.site.domain = <<"x">>
           /\ a.site_configuration.overrides # {}}

\* The assignments of a course: the second is due before the first, the
\* third has no due date, which event.add('dtstart', ...) rejects.
Assignment ==
    {[block_key |-> <<"b","1">>, title |-> <<"H","W">>, date |-> Datetime(60)],
     [block_key |-> <<"b","2">>, title |-> <<"Q","<",",">>, date |-> Datetime(30)],
     [block_key |-> <<"b","3">>, title |-> <<"L">>, date |-> None]}

RECURSIVE ListsUpTo(_, _)
\* The sequences of at most n elements of S.
ListsUpTo(S, n) ==
    IF n = 0 THEN {<<>>}
    ELSE LET shorter == ListsUpTo(S, n - 1)
         IN  shorter \cup {Append(l, x) : l \in shorter, x \in S}

\* ------------------------------------------------------ the collaborators

\* get_course_assignments(course.id, user, request): the assignments of the
\* course as they are when the call is made, in the provider's order.
get_course_assignments(course_id, u, r) == course_assignments

\* get_value(val_name, default): the site's value, or the default.
get_value(val_name, default) ==
    IF val_name \in site_configuration.overrides
    THEN site_configuration[val_name]
    ELSE default

\* HTML(_('{assignment} is due for {course}.')).format(assignment=, course=)
DueDescription(assignment_title, course_name) ==
    HtmlEscape(assignment_title)
        \o <<" ","i","s"," ","d","u","e"," ","f","o","r"," ">>
        \o HtmlEscape(course_name) \o <<".">>

\* _('{course} Begins').format(course=)
BeginsTitle(course_name) == course_name \o <<" ","B","e","g","i","n","s">>

\* ------------------------------------ generate_ics_for_course_assignments

\* The identifier is built from the course id instead of the block key.
AssignmentUid_course(u, assignment, r) ==
    get_calendar_event_id(u.id, course.id, DUE, r.site.domain)

\* uid=get_calendar_event_id(user.id, str(assignment.block_key), 'due',
\*                           request.site.domain)
AssignmentUid(u, assignment, r) ==
    get_calendar_event_id(u.id, assignment.block_key, DUE, r.site.domain)

\* The creation timestamp is read again for every item.
AssignmentIcs_clock(assignment) ==
    generate_ics_for_event(
        AssignmentUid(user, assignment, request),
        assignment.title,
        DueDescription(assignment.title, course.display_name_with_default),
        Datetime(clock),
        assignment.date,
        platform_name,
        platform_email)

\* The element of the generator expression: generate_ics_for_event(...)
\* for one assignment, evaluated when the consumer asks for the item.
AssignmentIcs(assignment) ==
    generate_ics_for_event(
        AssignmentUid(user, assignment, request),
        assignment.title,
        DueDescription(assignment.title, course.display_name_with_default),
        now,
        assignment.date,
        platform_name,
        platform_email)

\* The list is walked from its end.
NextAssignment_reversed(list, taken) == list[Len(list) - taken]

\* "for assignment in assignments": the list iterator's next item.
NextAssignment(list, taken) == list[taken + 1]

\* The number of items of list[1..n] that serialize without an error.
RECURSIVE Serializable(_, _)
Serializable(list, n) ==
    IF n = 0 THEN 0
    ELSE Serializable(list, n - 1)
           + (IF list[n].date.isdt THEN 1 ELSE 0)

\* A list comprehension in place of the generator expression: every
\* document is built when the function is called.
generate_ics_for_course_assignments_eager ==
    /\ genState = "none"
    /\ LET provided == get_course_assignments(course.id, user, request)
       IN  /\ assignments' = provided
           /\ returned' = provided
           /\ serialized' = Serializable(provided, Len(provided))
    /\ providerReads' = providerReads + 1
    /\ platform_name' = get_value("platform_name", PLATFORM_NAME)
    /\ platform_email' = get_value("email_from_address", DEFAULT_FROM_EMAIL)
    /\ now' = Datetime(clock)
    /\ genState' = "suspended"
    /\ pos' = 0
    /\ UNCHANGED <<abandoned, clock, world, course_assignments, consumer, startResult, probe>>

\* The call: the provider and the site configuration are read, the clock
\* is read once, and a generator that has not started is returned.
generate_ics_for_course_assignments ==
    /\ genState = "none"
    /\ LET provided == get_course_assignments(course.id, user, request)
       IN  /\ assignments' = provided
           /\ returned' = provided
    /\ providerReads' = providerReads + 1
    /\ platform_name' = get_value("platform_name", PLATFORM_NAME)
    /\ platform_email' = get_value("email_from_address", DEFAULT_FROM_EMAIL)
    /\ now' = Datetime(clock)
    /\ genState' = "suspended"
    /\ pos' = 0
    /\ UNCHANGED <<abandoned, clock, world, course_assignments, consumer, serialized, startResult, probe>>

\* An item that fails to serialize is dropped and the next one is tried.
GeneratorNext_skip ==
    /\ genState # "none"
    /\ IF genState = "suspended" /\ pos < Len(assignments)
       THEN LET r == AssignmentIcs(NextAssignment(assignments, pos))
            IN  /\ pos' = pos + 1
                /\ IF r.raised
                   THEN UNCHANGED <<genState, consumer, serialized>>
                   ELSE /\ delivered' = Append(delivered, r.ics)
                        /\ deliveredAt' = Append(deliveredAt, clock)
                        /\ serialized' = serialized + 1
                        /\ lastResult' = "item"
                        /\ UNCHANGED <<genState, errorAt>>
       ELSE /\ genState' = "closed"
            /\ lastResult' = "stop"
            /\ UNCHANGED <<pos, delivered, deliveredAt, errorAt, serialized>>
    /\ UNCHANGED <<clock, world, course_assignments, abandoned, assignments, platform_name, platform_email, now, returned, providerReads, startResult, probe>>

\* next() on the generator: the next assignment is taken and serialized;
\* the document is yielded, or the serializer's exception leaves the
\* generator, which is then finished; a finished generator, and one whose
\* list is used up, raises StopIteration.
GeneratorNext ==
    /\ genState # "none"
    /\ IF genState = "suspended" /\ pos < Len(assignments)
       THEN LET r == AssignmentIcs(NextAssignment(assignments, pos))
            IN  /\ pos' = pos + 1
                /\ IF r.raised
                   THEN /\ genState' = "closed"
                        /\ errorAt' = pos + 1
                        /\ lastResult' = "error"
                        /\ UNCHANGED <<delivered, deliveredAt, serialized>>
                   ELSE /\ delivered' = Append(delivered, r.ics)
                        /\ deliveredAt' = Append(deliveredAt, clock)
                        /\ serialized' = serialized + 1
                        /\ lastResult' = "item"
                        /\ UNCHANGED <<genState, errorAt>>
       ELSE /\ genState' = "closed"
            /\ lastResult' = "stop"
            /\ UNCHANGED <<pos, delivered, deliveredAt, errorAt, serialized>>
    /\ UNCHANGED <<clock, world, course_assignments, abandoned, assignments, platform_name, platform_email, now, returned, providerReads, startResult, probe>>

\* The consumer abandons the sequence: the generator is closed (close(), or
\* the last reference to it is dropped).
GeneratorClose ==
    /\ genState = "suspended"
    /\ genState' = "closed"
    /\ abandoned' = TRUE
    /\ UNCHANGED <<clock, world, course_assignments, assignments, platform_name, platform_email, now, pos, consumer, returned, providerReads, serialized, startResult, probe>>

\* ------------------------------------------ generate_ics_for_course_start

\* The identifier is built with the user's id.
CourseStartUid_user(c, r) ==
    get_calendar_event_id(user.id, c.id, START, r.site.domain)

\* uid=get_calendar_event_id(0, str(course.id), 'start', request.site.domain)
CourseStartUid(c, r) == get_calendar_event_id(0, c.id, START, r.site.domain)

\* generate_ics_for_course_start(course, request): one document is returned.
generate_ics_for_course_start ==
    /\ ~startResult.called
    /\ LET r == generate_ics_for_event(
                    CourseStartUid(course, request),
                    BeginsTitle(course.display_name_with_default),
                    <<>>,
                    Datetime(clock),
                    course.start_date,
                    get_value("platform_name", PLATFORM_NAME),
                    get_value("email_from_address", DEFAULT_FROM_EMAIL))
       IN  startResult' = [called |-> TRUE, raised |-> r.raised, ics |-> r.ics]
    /\ UNCHANGED <<clock, world, course_assignments, generator, consumer, returned, providerReads, serialized, probe>>

\* ------------------------------------------------------- the environment

\* Time passes.
Tick ==
    /\ clock < MaxClock
    /\ clock' = clock + 1
    /\ UNCHANGED <<world, course_assignments, generator, consumer, returned, providerReads, serialized, startResult, probe>>

\* The course changes while the sequence is consumed: its first assignment
\* is removed.
CourseContentChanges ==
    /\ genState # "none"
    /\ course_assignments = returned
    /\ course_assignments # <<>>
    /\ course_assignments' = Tail(course_assignments)
    /\ UNCHANGED <<clock, world, generator, consumer, returned, providerReads, serialized, startResult, probe>>

\* ------------------------------------------------------ the specification

NotCalled ==
    /\ clock = 0
    /\ genState = "none"
    /\ abandoned = FALSE
    /\ assignments = <<>>
    /\ platform_name = <<>>
    /\ platform_email = <<>>
    /\ now = None
    /\ pos = 0
    /\ delivered = <<>>
    /\ deliveredAt = <<>>
    /\ errorAt = 0
    /\ lastResult = "none"
    /\ returned = <<>>
    /\ providerReads = 0
    /\ serialized = 0
    /\ startResult = [called |-> FALSE, raised |-> FALSE, ics |-> <<>>]

Init ==
    /\ NotCalled
    /\ \E a \in Calls :
          /\ course = a.course
          /\ user = a.user
          /\ request = a.request
          /\ site_configuration = a.site_configuration
    /\ course_assignments \in ListsUpTo(Assignment, MaxAssignments)
    /\ probe = [kind |-> "none"]

Next ==
    \/ generate_ics_for_course_assignments
    \/ GeneratorNext
    \/ GeneratorClose
    \/ generate_ics_for_course_start
    \/ Tick
    \/ CourseContentChanges

Spec == Init /\ [][Next]_vars

\* ------------------------------------- direct calls of get_calendar_event_id

\* The characters of the strings tried: a letter and the two separators.
KeyAlphabet == {"a", ".", "@"}

\* Strings that end like an identifier's tag or hold a whole identifier.
LongKeys ==
    {<<"a",".","d","u","e">>, <<"a",".","s","t","a","r","t">>,
     <<"0",".","a",".","d","u","e","@","x">>}

Keys == ListsUpTo(KeyAlphabet, MaxKeyLen) \cup LongKeys

UserIds == {0, 1, 7, 10, 42}

DateTypes == {DUE, START, <<"e","n","d">>}

Hostnames == {<<"x">>, <<"e",".","o">>, <<"a","@","x">>}

IdArguments == UserIds \X Keys \X DateTypes \X Hostnames

\* The fields in which two argument tuples differ.
Differing(a, b) == {f \in 1..4 : a[f] # b[f]}

\* The main program has not been called and is not looked at.
Idle ==
    /\ NotCalled
    /\ \E a \in {CHOOSE c \in Calls : TRUE} :
          /\ course = a.course
          /\ user = a.user
          /\ request = a.request
          /\ site_configuration = a.site_configuration
    /\ course_assignments = <<>>

\* Two argument tuples that differ in exactly one field.
InitIdPair ==
    /\ Idle
    /\ \E a \in IdArguments, b \in IdArguments :
          /\ Cardinality(Differing(a, b)) = 1
          /\ probe = [kind |-> "ids", done |-> FALSE, a |-> a, b |-> b,
                      ida |-> <<>>, idb |-> <<>>]

\* A course, a request, and a user with an assignment of some course.
InitStartAndDue ==
    /\ Idle
    /\ \E n \in UserIds \ {0}, c \in Keys, b \in Keys, h \in Hostnames :
          probe = [kind |-> "start_due", done |-> FALSE,
                   course |-> [id |-> c],
                   user |-> [id |-> n],
                   assignment |-> [block_key |-> b],
                   request |-> [site |-> [domain |-> h]],
                   start_uid |-> <<>>, due_uid |-> <<>>]

\* get_calendar_event_id is called with each of the two tuples.
CallEventId ==
    /\ probe.kind = "ids"
    /\ ~probe.done
    /\ probe' = [probe EXCEPT
                   !.done = TRUE,
                   !.ida = get_calendar_event_id(probe.a[1], probe.a[2], probe.a[3], probe.a[4]),
                   !.idb = get_calendar_event_id(probe.b[1], probe.b[2], probe.b[3], probe.b[4])]
    /\ UNCHANGED <<clock, world, course_assignments, generator, consumer, returned, providerReads, serialized, startResult>>

\* The identifiers the two generators build, for the same request.
CallStartAndDueId ==
    /\ probe.kind = "start_due"
    /\ ~probe.done
    /\ probe' = [probe EXCEPT
                   !.done = TRUE,
                   !.start_uid = CourseStartUid(probe.course, probe.request),
                   !.due_uid = AssignmentUid(probe.user, probe.assignment, probe.request)]
    /\ UNCHANGED <<clock, world, course_assignments, generator, consumer, returned, providerReads, serialized, startResult>>

InitId == InitIdPair \/ InitStartAndDue

NextId == CallEventId \/ CallStartAndDueId

SpecId == InitId /\ [][NextId]_vars

\* ------------------------------------ direct calls of generate_ics_for_event

EventArguments ==
    [uid : {<<"7",".","b","1",".","d","u","e","@","x">>, <<"a",";">>},
     title : {<<"H","W">>, <<"Q",",">>, <<>>},
     description : {<<>>, <<"d","\n","\\">>},
     now : {Datetime(t) : t \in 0..MaxClock},
     start : {Datetime(0), Datetime(3661), None},
     organizer_name : {PLATFORM_NAME, <<"U",";","x">>},
     organizer_email : {DEFAULT_FROM_EMAIL, <<"u","@","x">>}]

\* The arguments of a call, and another creation timestamp.
InitEvent ==
    /\ Idle
    /\ \E args \in EventArguments, t \in 0..MaxClock :
          probe = [kind |-> "event", done |-> FALSE, args |-> args,
                   now2 |-> Datetime(t),
                   first |-> [raised |-> FALSE, ics |-> <<>>],
                   again |-> [raised |-> FALSE, ics |-> <<>>],
                   other |-> [raised |-> FALSE, ics |-> <<>>]]

\* generate_ics_for_event is called twice with the arguments, and once more
\* with the other creation timestamp.
CallGenerateIcsForEvent ==
    /\ probe.kind = "event"
    /\ ~probe.done
    /\ LET a == probe.args
           call(t) == generate_ics_for_event(a.uid, a.title, a.description, t, a.start, a.organizer_name, a.organizer_email)
       IN  probe' = [probe EXCEPT !.done = TRUE,
                                  !.first = call(a.now),
                                  !.again = call(a.now),
                                  !.other = call(probe.now2)]
    /\ UNCHANGED <<clock, world, course_assignments, generator, consumer, returned, providerReads, serialized, startResult>>

SpecEvent == InitEvent /\ [][CallGenerateIcsForEvent]_vars

\* The two generators and the direct calls of generate_ics_for_event.
InitDocuments == Init \/ InitEvent

NextDocuments ==
    \/ probe.kind = "none" /\ Next
    \/ CallGenerateIcsForEvent

SpecDocuments == InitDocuments /\ [][NextDocuments]_vars

\* ------------------------------------------------------------ properties

\* The content lines of a document that carry the given property.
Lines(ics, name) == SelectSeq(ics, LAMBDA l : l.name = name)

\* The value of a property that the document carries once.
Field(ics, name) == Lines(ics, name)[1].value

\* The number of content lines of the document equal to the given line.
Count(ics, line) == Len(SelectSeq(ics, LAMBDA l : l = line))

\* The identifier the assignment expander is to give the k-th assignment.
DueId(k) ==
    FormatInt(user.id) \o <<".">> \o returned[k].block_key
        \o <<".","d","u","e","@">> \o request.site.domain

\* C1: the documents received so far are, in order, those of the first
\* assignments of the list the provider returned (title, due date and block
\* reference), and a sequence consumed to its end without an error has
\* given exactly one document per assignment, none when the list is empty.
C1_OnePerAssignmentInOrder ==
    /\ Len(delivered) <= Len(returned)
    /\ \A k \in 1..Len(delivered) :
          /\ Field(delivered[k], "SUMMARY") = vText(returned[k].title)
          /\ Field(delivered[k], "DTSTART") = FormatTime(returned[k].date)
          /\ Field(delivered[k], "UID") = vText(DueId(k))
    /\ (lastResult = "stop" /\ errorAt = 0 /\ ~abandoned)
          => Len(delivered) = Len(returned)

\* Two different assignments were received in the provider's order, which
\* is not the order of their due dates, and the sequence has ended.
C1_Witness ==
    /\ lastResult = "stop" /\ errorAt = 0 /\ ~abandoned
    /\ Len(returned) = 2
    /\ Len(delivered) = 2
    /\ returned[1].date.secs > returned[2].date.secs

\* C2: every document of one call carries the creation timestamp read when
\* the function was called, whenever it is consumed.
C2_SharedCreationTimestamp ==
    \A k \in 1..Len(delivered) :
        /\ Len(Lines(delivered[k], "DTSTAMP")) = 1
        /\ Field(delivered[k], "DTSTAMP") = FormatTime(now)

\* Two documents were received at two different times, both after the call.
C2_Witness ==
    /\ Len(delivered) = 2
    /\ now.secs < deliveredAt[1]
    /\ deliveredAt[1] < deliveredAt[2]

\* The k-th assignment of the returned list fails to serialize.
Fails(k) == ~returned[k].date.isdt

\* C3: once the consumer has reached the first assignment that fails to
\* serialize, the k-th, the error was raised at step k, exactly the k-1
\* earlier documents were delivered, and the generator is finished: no
\* later assignment was taken from the list.
C3_ErrorAtFailingItem ==
    /\ \A k \in 1..Len(returned) :
          (pos >= k /\ Fails(k) /\ \A j \in 1..(k - 1) : ~Fails(j))
             => /\ errorAt = k
                /\ pos = k
                /\ Len(delivered) = k - 1
                /\ genState = "closed"
                /\ lastResult \in {"error", "stop"}
    /\ errorAt # 0 => Fails(errorAt)

\* The second of three assignments failed and the third would serialize;
\* the consumer received one document, then the error, and asking again
\* ended the sequence.
C3_Witness ==
    /\ Len(returned) = 3
    /\ errorAt = 2
    /\ ~Fails(3)
    /\ Len(delivered) = 1
    /\ lastResult = "stop"

\* The position of the first content line with the given name and value.
Index(ics, name, value) ==
    CHOOSE i \in 1..Len(ics) :
        /\ ics[i].name = name /\ ics[i].value = value
        /\ \A j \in 1..(i - 1) : ~(ics[j].name = name /\ ics[j].value = value)

\* The document has one line with this name and value, and no other line
\* with this name.
Once(ics, name, value) ==
    /\ Len(Lines(ics, name)) = 1
    /\ Field(ics, name) = value

\* One calendar, version 2.0, method REQUEST, the fixed product
\* identifier, and in it one event of duration zero, marked transparent.
OneEventCalendar(ics) ==
    LET calendar == <<"V","C","A","L","E","N","D","A","R">>
        event    == <<"V","E","V","E","N","T">>
        begin(v) == [name |-> "BEGIN", params |-> <<>>, value |-> v]
        end(v)   == [name |-> "END", params |-> <<>>, value |-> v]
    IN  /\ Len(ics) >= 4
        /\ ics[1] = begin(calendar)
        /\ ics[Len(ics)] = end(calendar)
        /\ Len(Lines(ics, "BEGIN")) = 2
        /\ Len(Lines(ics, "END")) = 2
        /\ Count(ics, begin(event)) = 1
        /\ Count(ics, end(event)) = 1
        /\ Once(ics, "VERSION", <<"2",".","0">>)
        /\ Once(ics, "METHOD", <<"R","E","Q","U","E","S","T">>)
        /\ Once(ics, "PRODID",
                <<"-","/","/","O","p","e","n"," ","e","d","X","/","/","c","a",
                  "l","e","n","d","a","r","_","s","y","n","c","/","/","E","N">>)
        /\ Once(ics, "DURATION", <<"P","T","0","S">>)
        /\ Once(ics, "TRANSP", <<"T","R","A","N","S","P","A","R","E","N","T">>)
        /\ LET b == Index(ics, "BEGIN", event)
               e == Index(ics, "END", event)
           IN  /\ b < Index(ics, "DURATION", <<"P","T","0","S">>)
               /\ Index(ics, "DURATION", <<"P","T","0","S">>) < e
               /\ b < Index(ics, "TRANSP", Field(ics, "TRANSP"))
               /\ Index(ics, "TRANSP", Field(ics, "TRANSP")) < e
               /\ Index(ics, "VERSION", <<"2",".","0">>) < b
               /\ Index(ics, "METHOD", Field(ics, "METHOD")) < b
               /\ Index(ics, "PRODID", Field(ics, "PRODID")) < b

\* C6: each document received carries the identifier
\* get_calendar_event_id(user id, block reference, "due", site domain) of
\* its assignment, and when the block references of the returned list are
\* pairwise distinct, so are the identifiers of the documents.
C6_DistinctDueIdentifiers ==
    /\ \A k \in 1..Len(delivered) :
          /\ Len(Lines(delivered[k], "UID")) = 1
          /\ Field(delivered[k], "UID") = vText(DueId(k))
    /\ (\A i, j \in 1..Len(returned) :
            i # j => returned[i].block_key # returned[j].block_key)
          => \A i, j \in 1..Len(delivered) :
                i # j => Field(delivered[i], "UID") # Field(delivered[j], "UID")

\* Three assignments with different block references, and the documents
\* of the first two.
C6_Witness ==
    /\ Len(returned) = 3
    /\ Len(delivered) = 2
    /\ \A i, j \in 1..3 : i # j => returned[i].block_key # returned[j].block_key

\* C7: generate_ics_for_course_start returns one document, whatever the
\* assignments of the course: its identifier is
\* "0.{course id}.start@{site domain}", its title "{display name} Begins",
\* its description empty and its start the course's start date.
C7_CourseStartDocument ==
    startResult.called =>
        /\ ~startResult.raised
        /\ Count(startResult.ics, [name |-> "BEGIN", params |-> <<>>, value |-> <<"V","C","A","L","E","N","D","A","R">>]) = 1
        /\ Count(startResult.ics, [name |-> "BEGIN", params |-> <<>>, value |-> <<"V","E","V","E","N","T">>]) = 1
        /\ Once(startResult.ics, "UID",
                vText(<<"0", ".">> \o course.id
                        \o <<".","s","t","a","r","t","@">>
                        \o request.site.domain))
        /\ Once(startResult.ics, "SUMMARY",
                vText(course.display_name_with_default
                        \o <<" ","B","e","g","i","n","s">>))
        /\ Once(startResult.ics, "DESCRIPTION", <<>>)
        /\ Once(startResult.ics, "DTSTART", FormatTime(course.start_date))

\* The start document of a course that has three assignments, for a
\* request of a user whose id is not 0.
C7_Witness ==
    /\ startResult.called
    /\ Len(course_assignments) = 3
    /\ user.id # 0

\* What C9 says of every state: the provider was read once, by the call;
\* the documents serialized are exactly those the consumer has received;
\* and the generator has taken from the list the items received, and the
\* one that failed.
C9_Incremental ==
    /\ providerReads = (IF genState = "none" THEN 0 ELSE 1)
    /\ serialized = Len(delivered)
    /\ pos = Len(delivered) + (IF errorAt = 0 THEN 0 ELSE 1)
    /\ pos <= Len(returned)

\* What C9 says of every step: after the call the provider is not read
\* again, and once the consumer has abandoned the sequence nothing more
\* is serialized or taken from the list.
C9_Step ==
    /\ genState # "none" => providerReads' = providerReads /\ returned' = returned
    /\ abandoned => serialized' = serialized /\ pos' = pos /\ delivered' = delivered

\* C9: the assignment provider is read exactly once, at the call and before
\* any document is serialized, and never during consumption; after j items
\* exactly j events have been serialized; a sequence abandoned after j
\* items leaves the other N-j assignments unserialized.
C9_ReadOnceSerializeLazily == []C9_Incremental /\ [][C9_Step]_vars

\* The sequence was abandoned after one of three items, the course changed
\* after the call, and asking the closed generator again gave nothing.
C9_Witness ==
    /\ abandoned
    /\ Len(returned) = 3
    /\ Len(delivered) = 1
    /\ serialized = 1
    /\ ~Fails(2)
    /\ course_assignments # returned
    /\ lastResult = "stop"

\* Every document there is: those the consumer of the assignment sequence
\* received, the one the course-start builder returned, and those of the
\* direct calls.
Documents ==
    {delivered[k] : k \in 1..Len(delivered)}
        \cup (IF startResult.called /\ ~startResult.raised
              THEN {startResult.ics} ELSE {})
        \cup (IF probe.kind = "event" /\ probe.done
              THEN {r.ics : r \in {x \in {probe.first, probe.again, probe.other} : ~x.raised}}
              ELSE {})

\* C4: every document generate_ics_for_event produces is one calendar with
\* version "2.0", method "REQUEST" and the fixed product identifier, and
\* holds exactly one event, of duration zero and transparent; so is every
\* document of the assignment sequence and of the course-start builder.
C4_OneTransparentEvent == \A ics \in Documents : OneEventCalendar(ics)

\* The consumer of the assignment sequence has received two documents and
\* the course-start builder has returned its own.
C4_Witness ==
    /\ Len(delivered) = 2
    /\ startResult.called
    /\ ~startResult.raised

\* C5: get_calendar_event_id returns "{user_id}.{block_key}.{date_type}@
\* {hostname}", and two argument tuples that differ in exactly one of the
\* four fields give different strings.
C5_EventIdFormatAndInjective ==
    (probe.kind = "ids" /\ probe.done) =>
        /\ probe.ida = Concat(<<FormatInt(probe.a[1]), <<".">>, probe.a[2], <<".">>, probe.a[3], <<"@">>, probe.a[4]>>)
        /\ probe.idb = Concat(<<FormatInt(probe.b[1]), <<".">>, probe.b[2], <<".">>, probe.b[3], <<"@">>, probe.b[4]>>)
        /\ probe.ida # probe.idb

\* Two tuples that differ only in the date type, with separators in the
\* block key and in the hostname.
C5_Witness ==
    /\ probe.kind = "ids" /\ probe.done
    /\ Differing(probe.a, probe.b) = {3}
    /\ probe.a[2] = <<".", "@">>
    /\ probe.a[4] = <<"a","@","x">>
    /\ probe.a[1] = 42

\* C8: two calls of generate_ics_for_event with the same arguments return
\* the same document, and a call that differs only in the creation
\* timestamp returns a document that differs from it in the DTSTAMP line
\* alone, which carries the other timestamp.
C8_OnlyDtstampDependsOnNow ==
    (probe.kind = "event" /\ probe.done) =>
        /\ probe.first = probe.again
        /\ probe.other.raised = probe.first.raised
        /\ Len(probe.other.ics) = Len(probe.first.ics)
        /\ \A i \in 1..Len(probe.first.ics) :
              IF probe.first.ics[i].name = "DTSTAMP"
              THEN probe.other.ics[i] = [probe.first.ics[i] EXCEPT !.value = FormatTime(probe.now2)]
              ELSE probe.other.ics[i] = probe.first.ics[i]

\* Documents of two calls whose creation timestamps differ.
C8_Witness ==
    /\ probe.kind = "event" /\ probe.done
    /\ ~probe.first.raised
    /\ probe.args.now # probe.now2
    /\ probe.first # probe.other

\* C10: for one site domain, the identifier of the course-start event is
\* never that of an assignment-due event of a user whose id is not 0,
\* whatever the course id and the block reference are.
C10_StartNeverEqualsDue ==
    (probe.kind = "start_due" /\ probe.done) => probe.start_uid # probe.due_uid

\* The course id and the block reference are the same string, with both
\* separators in it.
C10_Witness ==
    /\ probe.kind = "start_due" /\ probe.done
    /\ probe.course.id = probe.assignment.block_key
    /\ probe.course.id = <<".", "@">>

====
